---- MODULE Spec2Model ----
(***************************************************************************)
(* mapreader.py: locate a red triangular pointer on a map photographed on  *)
(* a blue background, and report the position of its tip and its bearing.  *)
(*                                                                         *)
(* The program is one straight-line script.  Its state is the script's     *)
(* variables and pc, the position reached in it.  The OpenCV calls         *)
(* (cvtColor, inRange, findContours, approxPolyDP, warpPerspective) are    *)
(* the environment: find_vertices either finds no contour or returns a     *)
(* polygon, which the model draws from a bounded set.  Everything the      *)
(* script computes itself is computed here as the script computes it.      *)
(*                                                                         *)
(* Numbers.  Pixel coordinates are integers.  A float that the script      *)
(* obtains by dividing integers is kept exactly, as a record [n, d] with   *)
(* d >= 0; d = 0 is what numpy's float64 division gives for a zero         *)
(* divisor: [n |-> 1, d |-> 0] is inf, [n |-> -1, d |-> 0] is -inf and     *)
(* [n |-> 0, d |-> 0] is nan.  A distance (a square root) is kept as its   *)
(* square, which orders and equates distances exactly as the roots do.     *)
(* An angle in degrees is kept as its integer part.                        *)
(***************************************************************************)
EXTENDS Integers, Sequences, FiniteSets, TLC

VARIABLES pc, argc, error, output,
          vertices, ordered_vertices, rectangle, max_width, max_height,
          warpedPoints, map_width, map_height,
          p1, p2, p3, xpos, ypos, mid_x, mid_y,
          north_slope, pointer_slope, angle_tangent, pointer_dirr, hdg

vars == <<pc, argc, error, output,
          vertices, ordered_vertices, rectangle, max_width, max_height,
          warpedPoints, map_width, map_height,
          p1, p2, p3, xpos, ypos, mid_x, mid_y,
          north_slope, pointer_slope, angle_tangent, pointer_dirr, hdg>>

(***************************************************************************)
(* Bounds of the model.                                                    *)
(***************************************************************************)
\* Largest pixel coordinate of a map corner handed to order_points.
MaxCorner == 2
\* Largest map width and height read off the rectified map.
MaxDim == 3
\* Largest number of vertices approxPolyDP returns in the whole-run model.
MaxVerts == 5
\* Largest number of command line words (sys.argv) tried.
MaxArgc == 3

(***************************************************************************)
(* Arithmetic helpers.                                                     *)
(***************************************************************************)
Abs(v) == IF v < 0 THEN -v ELSE v

Sign(v) == IF v < 0 THEN -1 ELSE IF v > 0 THEN 1 ELSE 0

Max2(a, b) == IF a >= b THEN a ELSE b

\* Python's int() of a float n/2: truncation towards zero.
IntHalf(n) == IF n >= 0 THEN n \div 2 ELSE -((-n) \div 2)

\* int(numpy.sqrt(v)) for an integer v >= 0: the integer square root.
ISqrt(v) == CHOOSE r \in 0..v : r * r <= v /\ (r + 1) * (r + 1) > v

\* The float64 quotient n / d of two integers, sign carried by n.
Rat(n, d) ==
    IF d > 0 THEN [n |-> n, d |-> d]
    ELSE IF d < 0 THEN [n |-> -n, d |-> -d]
    ELSE [n |-> Sign(n), d |-> 0]

RatNeg(r) == (r.n < 0)

RECURSIVE Ulp32(_, _)
Ulp32(a, u) == IF a < 16777216 * u THEN u ELSE Ulp32(a, 2 * u)

\* numpy's conversion of an integer to float32 (24-bit significand, ties to
\* even): exact up to 2^24, rounded to a multiple of the unit above it.
Float32(v) ==
    LET a == Abs(v)
        u == Ulp32(a, 1)
        q == a \div u
        r == a % u
        m == IF 2 * r < u THEN q
             ELSE IF 2 * r > u THEN q + 1
             ELSE IF q % 2 = 0 THEN q ELSE q + 1
    IN  Sign(v) * m * u

(***************************************************************************)
(* order_points (lines 111-122).                                           *)
(***************************************************************************)
\* numpy.argmin: the first index of the smallest entry.
ArgMin(f) ==
    CHOOSE i \in DOMAIN f :
        /\ \A j \in DOMAIN f : f[i] <= f[j]
        /\ \A j \in DOMAIN f : j < i => f[j] # f[i]

\* numpy.argmax: the first index of the largest entry.
ArgMax(f) ==
    CHOOSE i \in DOMAIN f :
        /\ \A j \in DOMAIN f : f[i] >= f[j]
        /\ \A j \in DOMAIN f : j < i => f[j] # f[i]

\* points.sum(axis=1): x + y of each point.
PointSum(points) == [i \in DOMAIN points |-> points[i][1] + points[i][2]]

\* numpy.diff(points, axis=1): y - x of each point.
PointDiff(points) == [i \in DOMAIN points |-> points[i][2] - points[i][1]]

ToFloat32(pt) == <<Float32(pt[1]), Float32(pt[2])>>

\* order_points with the difference taken as x - y instead of numpy.diff's
\* y - x.
order_points_xminusy(points) ==
    LET s == PointSum(points)
        diff == [i \in DOMAIN points |-> points[i][1] - points[i][2]]
    IN  << ToFloat32(points[ArgMin(s)]),
           ToFloat32(points[ArgMin(diff)]),
           ToFloat32(points[ArgMax(s)]),
           ToFloat32(points[ArgMax(diff)]) >>

\* The result is <<top-left, top-right, bottom-right, bottom-left>>, the
\* script's ordered_list[0..3] at indices 1..4.
order_points(points) ==
    LET s == PointSum(points)
        diff == PointDiff(points)
    IN  << ToFloat32(points[ArgMin(s)]),
           ToFloat32(points[ArgMin(diff)]),
           ToFloat32(points[ArgMax(s)]),
           ToFloat32(points[ArgMax(diff)]) >>

(***************************************************************************)
(* distance_of_points (lines 128-131), as the square of the distance.      *)
(***************************************************************************)
distance_of_points(a, b) ==
    (a[1] - b[1]) * (a[1] - b[1]) + (a[2] - b[2]) * (a[2] - b[2])

(***************************************************************************)
(* get_slope (lines 169-174).                                              *)
(***************************************************************************)
get_slope(x1, y1, x2, y2) ==
    LET x2b == IF x2 = x1 THEN x2 + 1 ELSE x2
    IN  Rat(y2 - y1, x2b - x1)

(***************************************************************************)
(* The marker geometry of the main program (lines 225-294).                *)
(***************************************************************************)
Min3(a, b, c) == IF a <= b /\ a <= c THEN a ELSE IF b <= c THEN b ELSE c

Max3(a, b, c) == IF a >= b /\ a >= c THEN a ELSE IF b >= c THEN b ELSE c

\* ApexBase with the longest edge taken as the base.
ApexBase_longest(q1, q2, q3) ==
    LET dist1 == distance_of_points(q1, q2)
        dist2 == distance_of_points(q1, q3)
        dist3 == distance_of_points(q2, q3)
        max_dist == Max3(dist1, dist2, dist3)
    IN  IF dist1 = max_dist
        THEN [xpos |-> q3[1], ypos |-> q3[2],
              mid_x |-> IntHalf(q1[1] + q2[1]), mid_y |-> IntHalf(q1[2] + q2[2])]
        ELSE IF dist2 = max_dist
        THEN [xpos |-> q2[1], ypos |-> q2[2],
              mid_x |-> IntHalf(q1[1] + q3[1]), mid_y |-> IntHalf(q1[2] + q3[2])]
        ELSE [xpos |-> q1[1], ypos |-> q1[2],
              mid_x |-> IntHalf(q3[1] + q2[1]), mid_y |-> IntHalf(q3[2] + q2[2])]

\* Lines 225-250: the vertex opposite the shortest edge is the tip, and the
\* middle of that edge, truncated to integers, is the base midpoint.
ApexBase(q1, q2, q3) ==
    LET dist1 == distance_of_points(q1, q2)
        dist2 == distance_of_points(q1, q3)
        dist3 == distance_of_points(q2, q3)
        min_dist == Min3(dist1, dist2, dist3)
    IN  IF dist1 = min_dist
        THEN [xpos |-> q3[1], ypos |-> q3[2],
              mid_x |-> IntHalf(q1[1] + q2[1]), mid_y |-> IntHalf(q1[2] + q2[2])]
        ELSE IF dist2 = min_dist
        THEN [xpos |-> q2[1], ypos |-> q2[2],
              mid_x |-> IntHalf(q1[1] + q3[1]), mid_y |-> IntHalf(q1[2] + q3[2])]
        ELSE [xpos |-> q1[1], ypos |-> q1[2],
              mid_x |-> IntHalf(q3[1] + q2[1]), mid_y |-> IntHalf(q3[2] + q2[2])]

\* Line 254.
NorthSlope(mx, my, width) == get_slope(mx + 1, my + 1, mx + 1, width)

\* Line 255.
PointerSlope(x, y, mx, my) == get_slope(x, y, mx + 1, my + 1)

\* Lines 260-261: (north_slope - pointer_slope) / (1 + north_slope *
\* pointer_slope).  Both slopes are finite with d > 0, so the common factor
\* ns.d * ps.d > 0 cancels; a zero divisor is +0.0 and the quotient takes
\* the sign of the numerator.
AngleTangent(ns, ps) ==
    Rat(ns.n * ps.d - ps.n * ns.d, ns.d * ps.d + ns.n * ps.n)

\* ceil(10^6 * tan(k degrees)) for k = 0..89, at index k + 1; exact at 0 and 45.
TanTable ==
    << 0, 17456, 34921, 52408, 69927, 87489, 105105, 122785, 140541, 158385,
       176327, 194381, 212557, 230869, 249329, 267950, 286746, 305731, 324920,
       344328, 363971, 383865, 404027, 424475, 445229, 466308, 487733, 509526,
       531710, 554310, 577351, 600861, 624870, 649408, 674509, 700208, 726543,
       753555, 781286, 809785, 839100, 869287, 900405, 932516, 965689, 1000000,
       1035531, 1072369, 1110613, 1150369, 1191754, 1234898, 1279942, 1327045,
       1376382, 1428149, 1482561, 1539865, 1600335, 1664280, 1732051, 1804048,
       1880727, 1962611, 2050304, 2144507, 2246037, 2355853, 2475087, 2605090,
       2747478, 2904211, 3077684, 3270853, 3487415, 3732051, 4010781, 4331476,
       4704631, 5144555, 5671282, 6313752, 7115370, 8144347, 9514365, 11430053,
       14300667, 19081137, 28636254, 57289962 >>

\* Lines 263-264: math.degrees(abs(math.atan(t))), integer part.  atan of
\* +-inf is pi/2, so an infinite tangent gives exactly 90; a finite one
\* gives less than 90.  nan (never produced: a zero divisor needs the two
\* slopes to differ) is -1.
AtanDegrees(t) ==
    IF t.d = 0
    THEN IF t.n = 0 THEN -1 ELSE 90
    ELSE LET ks == { k \in 0..89 : Abs(t.n) * 1000000 >= TanTable[k + 1] * t.d }
         IN  CHOOSE k \in ks : \A j \in ks : j <= k

\* QuadrantOffset with the vertical test turned round (mid_y > ypos).
QuadrantOffset_swapped(x, y, mx, my, t) ==
    IF mx > x
    THEN IF my > y THEN 180
         ELSE IF RatNeg(t) THEN 270
         ELSE 180
    ELSE 0

\* Lines 278-284: what is added to pointer_dirr.
QuadrantOffset(x, y, mx, my, t) ==
    IF mx > x
    THEN IF my < y THEN 180
         ELSE IF RatNeg(t) THEN 270
         ELSE 180
    ELSE 0

\* NormalY without the abs() of line 291.
NormalY_noabs(y, height) == Rat(y - height, height)

\* Lines 291 and 294.
NormalY(y, height) == Rat(Abs(y - height), height)

\* Line 293.
NormalX(x, width) == Rat(x, width)

\* "%.3f" % v for a float v = r.n / r.d: thousandths, rounded to nearest
\* (ties to even; no tie has a divisor below 16), or inf / nan.
Fmt3(r) ==
    IF r.d = 0
    THEN IF r.n = 0 THEN "nan" ELSE IF r.n < 0 THEN "-inf" ELSE "inf"
    ELSE LET a == 1000 * Abs(r.n)
             q == a \div r.d
             m == a % r.d
             k == IF 2 * m < r.d THEN q
                  ELSE IF 2 * m > r.d THEN q + 1
                  ELSE IF q % 2 = 0 THEN q ELSE q + 1
         IN  Sign(r.n) * k

(***************************************************************************)
(* The environment: what find_vertices (lines 84-102) can return.          *)
(***************************************************************************)
\* The pixels of a contour, in contour order: the corners of a 3 x 3 patch
\* and the middle of its right edge.
ContourRing == << <<0, 0>>, <<0, 2>>, <<2, 2>>, <<2, 1>>, <<2, 0>> >>

\* approxPolyDP keeps some of the contour's points, in contour order,
\* starting anywhere: index sequences that wrap around at most once.
RingPicks ==
    UNION { { s \in [1..n -> DOMAIN ContourRing] :
                /\ \A i, j \in 1..n : i # j => s[i] # s[j]
                /\ Cardinality({ i \in 1..n : s[i] > s[(i % n) + 1] }) <= 1 }
            : n \in 1..MaxVerts }

Polygons == { [i \in DOMAIN s |-> ContourRing[s[i]]] : s \in RingPicks }

\* Polygons of n distinct vertices among the pixels (0..w) x (0..h).
DistinctSeqs(w, h, n) ==
    { s \in [1..n -> (0..w) \X (0..h)] : \A i, j \in 1..n : i # j => s[i] # s[j] }

(***************************************************************************)
(* The main program (lines 187-300), one action per step.                  *)
(***************************************************************************)
NoRat == [n |-> 0, d |-> 1]

\* The script's variables before anything is assigned.
Unassigned ==
    /\ error = "none" /\ output = <<>>
    /\ vertices = <<>> /\ ordered_vertices = <<>> /\ rectangle = <<>>
    /\ max_width = 0 /\ max_height = 0
    /\ warpedPoints = <<>> /\ map_width = 0 /\ map_height = 0
    /\ p1 = <<>> /\ p2 = <<>> /\ p3 = <<>>
    /\ xpos = 0 /\ ypos = 0 /\ mid_x = 0 /\ mid_y = 0
    /\ north_slope = NoRat /\ pointer_slope = NoRat /\ angle_tangent = NoRat
    /\ pointer_dirr = 0 /\ hdg = 0

Init ==
    /\ pc = "start"
    /\ argc \in 1..MaxArgc
    /\ Unassigned

\* Raise: the interpreter prints a traceback and exits; nothing else runs.
Crash(exc) ==
    /\ pc' = "crashed"
    /\ error' = exc

\* Lines 187-189.
UsageError ==
    /\ pc = "start"
    /\ argc # 2
    /\ pc' = "exit"
    /\ error' = "usage"
    /\ UNCHANGED <<argc, output, vertices, ordered_vertices, rectangle, max_width,
                   max_height, warpedPoints, map_width, map_height, p1, p2, p3,
                   xpos, ypos, mid_x, mid_y, north_slope, pointer_slope,
                   angle_tangent, pointer_dirr, hdg>>

\* Lines 191-198, cv2.imread returning None.
FileNotFound ==
    /\ pc = "start"
    /\ argc = 2
    /\ pc' = "exit"
    /\ error' = "not found"
    /\ output' = Append(output, [line |-> "File not found"])
    /\ UNCHANGED <<argc, vertices, ordered_vertices, rectangle, max_width,
                   max_height, warpedPoints, map_width, map_height, p1, p2, p3,
                   xpos, ypos, mid_x, mid_y, north_slope, pointer_slope,
                   angle_tangent, pointer_dirr, hdg>>

\* Lines 191-201, the image read and the background masked out.
ReadImage ==
    /\ pc = "start"
    /\ argc = 2
    /\ pc' = "find_map"
    /\ UNCHANGED <<argc, error, output, vertices, ordered_vertices, rectangle,
                   max_width, max_height, warpedPoints, map_width, map_height,
                   p1, p2, p3, xpos, ypos, mid_x, mid_y, north_slope,
                   pointer_slope, angle_tangent, pointer_dirr, hdg>>

\* Line 204, find_vertices with no contour: big_cntr is never bound (line 99).
FindMapNoContour ==
    /\ pc = "find_map"
    /\ Crash("UnboundLocalError")
    /\ UNCHANGED <<argc, output, vertices, ordered_vertices, rectangle, max_width,
                   max_height, warpedPoints, map_width, map_height, p1, p2, p3,
                   xpos, ypos, mid_x, mid_y, north_slope, pointer_slope,
                   angle_tangent, pointer_dirr, hdg>>

\* Line 204.
FindMapVertices ==
    /\ pc = "find_map"
    /\ \E poly \in Polygons : vertices' = poly
    /\ pc' = "order"
    /\ UNCHANGED <<argc, error, output, ordered_vertices, rectangle, max_width,
                   max_height, warpedPoints, map_width, map_height, p1, p2, p3,
                   xpos, ypos, mid_x, mid_y, north_slope, pointer_slope,
                   angle_tangent, pointer_dirr, hdg>>

\* Line 205, vertices.reshape(4, 2) of an array that has not 8 entries.
ReshapeError ==
    /\ pc = "order"
    /\ Len(vertices) # 4
    /\ Crash("ValueError")
    /\ UNCHANGED <<argc, output, vertices, ordered_vertices, rectangle, max_width,
                   max_height, warpedPoints, map_width, map_height, p1, p2, p3,
                   xpos, ypos, mid_x, mid_y, north_slope, pointer_slope,
                   angle_tangent, pointer_dirr, hdg>>

\* Line 205.
OrderCorners ==
    /\ pc = "order"
    /\ Len(vertices) = 4
    /\ ordered_vertices' = order_points(vertices)
    /\ pc' = "warp"
    /\ UNCHANGED <<argc, error, output, vertices, rectangle, max_width,
                   max_height, warpedPoints, map_width, map_height, p1, p2, p3,
                   xpos, ypos, mid_x, mid_y, north_slope, pointer_slope,
                   angle_tangent, pointer_dirr, hdg>>

\* Line 206, warp_image (lines 142-163): the corners are ordered again and
\* the size of the rectified image is taken from the longer opposite sides.
WarpImage ==
    /\ pc = "warp"
    /\ LET rect == order_points(ordered_vertices)
           topLeft == rect[1]
           topRight == rect[2]
           bottRight == rect[3]
           bottLeft == rect[4]
           width_a == distance_of_points(bottRight, bottLeft)
           width_b == distance_of_points(topRight, topLeft)
           height_a == distance_of_points(topRight, bottRight)
           height_b == distance_of_points(topLeft, bottLeft)
       IN  /\ rectangle' = rect
           /\ max_width' = Max2(ISqrt(width_a), ISqrt(width_b))
           /\ max_height' = Max2(ISqrt(height_a), ISqrt(height_b))
    /\ pc' = "find_warped"
    /\ UNCHANGED <<argc, error, output, vertices, ordered_vertices,
                   warpedPoints, map_width, map_height, p1, p2, p3,
                   xpos, ypos, mid_x, mid_y, north_slope, pointer_slope,
                   angle_tangent, pointer_dirr, hdg>>

\* Line 211, no contour in the rectified image.
FindWarpedNoContour ==
    /\ pc = "find_warped"
    /\ Crash("UnboundLocalError")
    /\ UNCHANGED <<argc, output, vertices, ordered_vertices, rectangle, max_width,
                   max_height, warpedPoints, map_width, map_height, p1, p2, p3,
                   xpos, ypos, mid_x, mid_y, north_slope, pointer_slope,
                   angle_tangent, pointer_dirr, hdg>>

\* Line 211.
FindWarpedVertices ==
    /\ pc = "find_warped"
    /\ \E poly \in Polygons : warpedPoints' = poly
    /\ pc' = "map_size"
    /\ UNCHANGED <<argc, error, output, vertices, ordered_vertices, rectangle,
                   max_width, max_height, map_width, map_height, p1, p2, p3,
                   xpos, ypos, mid_x, mid_y, north_slope, pointer_slope,
                   angle_tangent, pointer_dirr, hdg>>

\* Line 212, warpedPoints[2] of a polygon of fewer than 3 vertices.
MapSizeIndexError ==
    /\ pc = "map_size"
    /\ Len(warpedPoints) < 3
    /\ Crash("IndexError")
    /\ UNCHANGED <<argc, output, vertices, ordered_vertices, rectangle, max_width,
                   max_height, warpedPoints, map_width, map_height, p1, p2, p3,
                   xpos, ypos, mid_x, mid_y, north_slope, pointer_slope,
                   angle_tangent, pointer_dirr, hdg>>

\* Lines 212-213: warpedPoints[2] is the third vertex, whatever their number.
MapSize ==
    /\ pc = "map_size"
    /\ Len(warpedPoints) >= 3
    /\ map_width' = warpedPoints[3][1]
    /\ map_height' = warpedPoints[3][2]
    /\ pc' = "find_triangle"
    /\ UNCHANGED <<argc, error, output, vertices, ordered_vertices, rectangle,
                   max_width, max_height, warpedPoints, p1, p2, p3,
                   xpos, ypos, mid_x, mid_y, north_slope, pointer_slope,
                   angle_tangent, pointer_dirr, hdg>>

\* Lines 217-218, no red contour.
FindTriangleNoContour ==
    /\ pc = "find_triangle"
    /\ Crash("UnboundLocalError")
    /\ UNCHANGED <<argc, output, vertices, ordered_vertices, rectangle, max_width,
                   max_height, warpedPoints, map_width, map_height, p1, p2, p3,
                   xpos, ypos, mid_x, mid_y, north_slope, pointer_slope,
                   angle_tangent, pointer_dirr, hdg>>

\* Line 218, (p1, p2, p3) = ... of a polygon that has not 3 vertices.
UnpackError ==
    /\ pc = "find_triangle"
    /\ \E poly \in Polygons : Len(poly) # 3
    /\ Crash("ValueError")
    /\ UNCHANGED <<argc, output, vertices, ordered_vertices, rectangle, max_width,
                   max_height, warpedPoints, map_width, map_height, p1, p2, p3,
                   xpos, ypos, mid_x, mid_y, north_slope, pointer_slope,
                   angle_tangent, pointer_dirr, hdg>>

\* Lines 217-218.
FindTriangle ==
    /\ pc = "find_triangle"
    /\ \E poly \in Polygons :
          /\ Len(poly) = 3
          /\ p1' = poly[1]
          /\ p2' = poly[2]
          /\ p3' = poly[3]
    /\ pc' = "apex"
    /\ UNCHANGED <<argc, error, output, vertices, ordered_vertices, rectangle,
                   max_width, max_height, warpedPoints, map_width, map_height,
                   xpos, ypos, mid_x, mid_y, north_slope, pointer_slope,
                   angle_tangent, pointer_dirr, hdg>>

\* Lines 225-250.
FindApex ==
    /\ pc = "apex"
    /\ LET ab == ApexBase(p1, p2, p3)
       IN  /\ xpos' = ab.xpos
           /\ ypos' = ab.ypos
           /\ mid_x' = ab.mid_x
           /\ mid_y' = ab.mid_y
    /\ pc' = "slopes"
    /\ UNCHANGED <<argc, error, output, vertices, ordered_vertices, rectangle,
                   max_width, max_height, warpedPoints, map_width, map_height,
                   p1, p2, p3, north_slope, pointer_slope,
                   angle_tangent, pointer_dirr, hdg>>

\* Lines 254-255.
Slopes ==
    /\ pc = "slopes"
    /\ north_slope' = NorthSlope(mid_x, mid_y, map_width)
    /\ pointer_slope' = PointerSlope(xpos, ypos, mid_x, mid_y)
    /\ pc' = "tangent"
    /\ UNCHANGED <<argc, error, output, vertices, ordered_vertices, rectangle,
                   max_width, max_height, warpedPoints, map_width, map_height,
                   p1, p2, p3, xpos, ypos, mid_x, mid_y,
                   angle_tangent, pointer_dirr, hdg>>

\* Lines 260-264.
Tangent ==
    /\ pc = "tangent"
    /\ angle_tangent' = AngleTangent(north_slope, pointer_slope)
    /\ pointer_dirr' = AtanDegrees(angle_tangent')
    /\ pc' = "quadrant"
    /\ UNCHANGED <<argc, error, output, vertices, ordered_vertices, rectangle,
                   max_width, max_height, warpedPoints, map_width, map_height,
                   p1, p2, p3, xpos, ypos, mid_x, mid_y,
                   north_slope, pointer_slope, hdg>>

\* Lines 278-286.
Quadrant ==
    /\ pc = "quadrant"
    /\ pointer_dirr' = pointer_dirr
                         + QuadrantOffset(xpos, ypos, mid_x, mid_y, angle_tangent)
    /\ hdg' = pointer_dirr'
    /\ pc' = "normalize"
    /\ UNCHANGED <<argc, error, output, vertices, ordered_vertices, rectangle,
                   max_width, max_height, warpedPoints, map_width, map_height,
                   p1, p2, p3, xpos, ypos, mid_x, mid_y,
                   north_slope, pointer_slope, angle_tangent>>

\* Lines 291-294: xpos and ypos are rebound to the normalized floats.
Normalize ==
    /\ pc = "normalize"
    /\ xpos' = NormalX(xpos, map_width)
    /\ ypos' = NormalY(ypos, map_height)
    /\ pc' = "print"
    /\ UNCHANGED <<argc, error, output, vertices, ordered_vertices, rectangle,
                   max_width, max_height, warpedPoints, map_width, map_height,
                   p1, p2, p3, mid_x, mid_y,
                   north_slope, pointer_slope, angle_tangent, pointer_dirr, hdg>>

\* Lines 296-300.  The bearing is printed at the model's resolution of
\* one degree.
PrintResult ==
    /\ pc = "print"
    /\ output' = output \o
                   << [line |-> "The filename to work on is"],
                      [line |-> "POSITION", x |-> Fmt3(xpos), y |-> Fmt3(ypos)],
                      [line |-> "BEARING", hdg |-> hdg] >>
    /\ pc' = "done"
    /\ UNCHANGED <<argc, error, vertices, ordered_vertices, rectangle,
                   max_width, max_height, warpedPoints, map_width, map_height,
                   p1, p2, p3, xpos, ypos, mid_x, mid_y,
                   north_slope, pointer_slope, angle_tangent, pointer_dirr, hdg>>

\* The whole run.
Next ==
    \/ UsageError
    \/ FileNotFound
    \/ ReadImage
    \/ FindMapNoContour
    \/ FindMapVertices
    \/ ReshapeError
    \/ OrderCorners
    \/ WarpImage
    \/ FindWarpedNoContour
    \/ FindWarpedVertices
    \/ MapSizeIndexError
    \/ MapSize
    \/ FindTriangleNoContour
    \/ UnpackError
    \/ FindTriangle
    \/ FindApex
    \/ Slopes
    \/ Tangent
    \/ Quadrant
    \/ Normalize
    \/ PrintResult

Spec == Init /\ [][Next]_vars

(***************************************************************************)
(* order_points on every quadrilateral of a small pixel grid: the run from *)
(* the moment find_vertices has returned four map corners (line 204) to    *)
(* the end of warp_image's own ordering (line 143).                        *)
(***************************************************************************)
InitOrder ==
    /\ pc = "order"
    /\ argc = 2
    /\ error = "none" /\ output = <<>>
    /\ vertices \in DistinctSeqs(MaxCorner, MaxCorner, 4)
    /\ ordered_vertices = <<>> /\ rectangle = <<>>
    /\ max_width = 0 /\ max_height = 0
    /\ warpedPoints = <<>> /\ map_width = 0 /\ map_height = 0
    /\ p1 = <<>> /\ p2 = <<>> /\ p3 = <<>>
    /\ xpos = 0 /\ ypos = 0 /\ mid_x = 0 /\ mid_y = 0
    /\ north_slope = NoRat /\ pointer_slope = NoRat /\ angle_tangent = NoRat
    /\ pointer_dirr = 0 /\ hdg = 0

NextOrder ==
    \/ OrderCorners
    \/ WarpImage

SpecOrder == InitOrder /\ [][NextOrder]_vars

(***************************************************************************)
(* The marker geometry on every small map and every triangle placed on it  *)
(* (lines 20-24: the pointer lies completely on the map, so its vertices   *)
(* are pixels from 0 to the map's width and height): the run from the      *)
(* moment the triangle's vertices are unpacked (line 218) to the end.      *)
(***************************************************************************)
InitMarker ==
    /\ pc = "apex"
    /\ argc = 2
    /\ error = "none" /\ output = <<>>
    /\ vertices = <<>> /\ ordered_vertices = <<>> /\ rectangle = <<>>
    /\ max_width = 0 /\ max_height = 0
    /\ warpedPoints = <<>>
    /\ map_width \in 1..MaxDim
    /\ map_height \in 1..MaxDim
    /\ \E tri \in DistinctSeqs(map_width, map_height, 3) :
          /\ p1 = tri[1]
          /\ p2 = tri[2]
          /\ p3 = tri[3]
    /\ xpos = 0 /\ ypos = 0 /\ mid_x = 0 /\ mid_y = 0
    /\ north_slope = NoRat /\ pointer_slope = NoRat /\ angle_tangent = NoRat
    /\ pointer_dirr = 0 /\ hdg = 0

NextMarker ==
    \/ FindApex
    \/ Slopes
    \/ Tangent
    \/ Quadrant
    \/ Normalize
    \/ PrintResult

SpecMarker == InitMarker /\ [][NextMarker]_vars

(***************************************************************************)
(* Properties.                                                             *)
(***************************************************************************)
\* The quadrant correction has been applied and xpos, ypos are still pixels.
AfterQuadrant == pc = "normalize"

\* What line 280-284 added to the raw angle.
OffsetAdded == hdg - AtanDegrees(angle_tangent)

\* C1, as stated: the offset is +180 when the apex is left of and above the
\* base midpoint (smaller pixel y), +270 when it is left of and below it
\* with a negative tangent, +180 when left of and below it otherwise, and 0
\* when it is to the right of the base midpoint.
C1_OffsetAboveIs180 ==
    AfterQuadrant =>
        /\ (xpos < mid_x /\ ypos < mid_y) => OffsetAdded = 180
        /\ (xpos < mid_x /\ ypos > mid_y /\ RatNeg(angle_tangent)) => OffsetAdded = 270
        /\ (xpos < mid_x /\ ypos > mid_y /\ ~RatNeg(angle_tangent)) => OffsetAdded = 180
        /\ (xpos > mid_x) => OffsetAdded = 0

\* C1, amended: the offset is +180 when the apex is left of and below the
\* base midpoint (larger pixel y), +270 when it is left of and above it
\* with a negative tangent, +180 when left of and above it otherwise, and 0
\* when it is to the right of the base midpoint.
C1_OffsetBelowIs180 ==
    AfterQuadrant =>
        /\ (xpos < mid_x /\ ypos > mid_y) => OffsetAdded = 180
        /\ (xpos < mid_x /\ ypos < mid_y /\ RatNeg(angle_tangent)) => OffsetAdded = 270
        /\ (xpos < mid_x /\ ypos < mid_y /\ ~RatNeg(angle_tangent)) => OffsetAdded = 180
        /\ (xpos > mid_x) => OffsetAdded = 0

\* An apex left of and above the base midpoint, negative tangent: +270.
C1_Witness ==
    /\ AfterQuadrant
    /\ xpos < mid_x /\ ypos < mid_y
    /\ RatNeg(angle_tangent)
    /\ OffsetAdded = 270

\* The marker is isosceles and points due south: its base is horizontal and
\* strictly its shortest edge, and its apex is straight below the middle of
\* the base.
PointsDueSouth ==
    LET tri == <<p1, p2, p3>>
    IN  \E a, b, c \in 1..3 :
           /\ a # b /\ a # c /\ b # c
           /\ tri[b][2] = tri[c][2]
           /\ tri[b][1] + tri[c][1] = 2 * tri[a][1]
           /\ tri[a][2] > tri[b][2]
           /\ distance_of_points(tri[a], tri[b]) = distance_of_points(tri[a], tri[c])
           /\ distance_of_points(tri[b], tri[c]) < distance_of_points(tri[a], tri[b])

\* C2: a marker whose apex lies straight below its base midpoint is
\* reported with a bearing near 180 (nearer to south than to east or west),
\* not near 0.
C2_SouthIsNear180 ==
    (AfterQuadrant /\ PointsDueSouth) => (hdg >= 135 /\ hdg <= 225)

\* C3: the reported bearing is at least 0 and strictly less than 360.
C3_BearingBelow360 ==
    (pc \in {"normalize", "print", "done"}) => (hdg >= 0 /\ hdg < 360)

\* The map corners have been ordered once (line 205).
AfterOrder == pc = "warp"

XPlusY(pt) == pt[1] + pt[2]

XMinusY(pt) == pt[1] - pt[2]

\* C4, as stated: index 0 has the minimum x+y, index 2 the maximum x+y,
\* index 1 the minimum x-y and index 3 the maximum x-y.
C4_TopRightMinXMinusY ==
    AfterOrder =>
        \A i \in 1..4 :
            /\ XPlusY(ordered_vertices[1]) <= XPlusY(vertices[i])
            /\ XPlusY(ordered_vertices[3]) >= XPlusY(vertices[i])
            /\ XMinusY(ordered_vertices[2]) <= XMinusY(vertices[i])
            /\ XMinusY(ordered_vertices[4]) >= XMinusY(vertices[i])

\* C4, amended: every label is an input point; index 0 has the minimum
\* x+y, index 2 the maximum x+y, index 1 (top-right) the maximum x-y and
\* index 3 (bottom-left) the minimum x-y.
C4_TopRightMaxXMinusY ==
    AfterOrder =>
        /\ \A k \in 1..4 : \E i \in 1..4 : ordered_vertices[k] = vertices[i]
        /\ \A i \in 1..4 :
              /\ XPlusY(ordered_vertices[1]) <= XPlusY(vertices[i])
              /\ XPlusY(ordered_vertices[3]) >= XPlusY(vertices[i])
              /\ XMinusY(ordered_vertices[2]) >= XMinusY(vertices[i])
              /\ XMinusY(ordered_vertices[4]) <= XMinusY(vertices[i])

\* Corners ordered, with top-right and bottom-left apart in x-y.
C4_Witness ==
    /\ AfterOrder
    /\ XMinusY(ordered_vertices[2]) > XMinusY(ordered_vertices[4])
    /\ XPlusY(ordered_vertices[1]) < XPlusY(ordered_vertices[3])

\* The turn at q when walking a, q, b (a cross product).
Turn(a, q, b) == (q[1] - a[1]) * (b[2] - q[2]) - (q[2] - a[2]) * (b[1] - q[1])

\* The four points, in the order given, are the corners of a strictly
\* convex quadrilateral.
ConvexQuad(v) ==
    LET t == [i \in 1..4 |-> Turn(v[i], v[(i % 4) + 1], v[((i + 1) % 4) + 1])]
    IN  \/ \A i \in 1..4 : t[i] > 0
        \/ \A i \in 1..4 : t[i] < 0

\* The four points, in some order, are the corners of a strictly convex
\* quadrilateral.
ConvexCorners(v) ==
    \E f \in Permutations(1..4) : ConvexQuad([i \in 1..4 |-> v[f[i]]])

\* C5: for the four corners of a quadrilateral, order_points gives the same
\* labelled points for every permutation of its input, ties on x+y or x-y
\* included.
C5_PermutationInvariant ==
    (AfterOrder /\ ConvexCorners(vertices)) =>
        \A f \in Permutations(1..4) :
            order_points([i \in 1..4 |-> vertices[f[i]]]) = ordered_vertices

\* C9: for a convex quadrilateral of 4 distinct points the output of
\* order_points holds each input point exactly once, and ordering the
\* output again (warp_image) returns it unchanged.
C9_OutputIsPermutation ==
    /\ (pc \in {"warp", "find_warped"} /\ ConvexCorners(vertices)) =>
           /\ { ordered_vertices[k] : k \in 1..4 } = { vertices[i] : i \in 1..4 }
           /\ \A j, k \in 1..4 : j # k => ordered_vertices[j] # ordered_vertices[k]
    /\ (pc = "find_warped" /\ ConvexCorners(vertices)) => rectangle = ordered_vertices

\* The apex and the base midpoint have been chosen (lines 225-250).
AfterApex == pc = "slopes"

\* C6: the base is a shortest edge, the remaining vertex is the apex
\* (xpos, ypos), and the base midpoint is the mean of the base's endpoints
\* truncated to an integer, also when edges tie for shortest.
C6_ApexOppositeShortest ==
    AfterApex =>
        LET tri == <<p1, p2, p3>>
        IN  \E a, b, c \in 1..3 :
               /\ a # b /\ a # c /\ b # c
               /\ xpos = tri[a][1] /\ ypos = tri[a][2]
               /\ distance_of_points(tri[b], tri[c]) <= distance_of_points(tri[a], tri[b])
               /\ distance_of_points(tri[b], tri[c]) <= distance_of_points(tri[a], tri[c])
               /\ 2 * mid_x <= tri[b][1] + tri[c][1]
               /\ tri[b][1] + tri[c][1] < 2 * mid_x + 2
               /\ 2 * mid_y <= tri[b][2] + tri[c][2]
               /\ tri[b][2] + tri[c][2] < 2 * mid_y + 2

\* Two edges tie for shortest, the third is longer, and the midpoint of the
\* chosen base is truncated.
C6_Witness ==
    /\ AfterApex
    /\ distance_of_points(p1, p2) = distance_of_points(p1, p3)
    /\ distance_of_points(p1, p2) < distance_of_points(p2, p3)
    /\ (p1[1] + p2[1]) % 2 = 1
    /\ xpos = p3[1] /\ ypos = p3[2]
    /\ 2 * mid_x = p1[1] + p2[1] - 1

\* A 'POSITION' or 'BEARING' line has been printed.
Printed == \E i \in DOMAIN output : output[i].line \in {"POSITION", "BEARING"}

\* The script has computed a position or bearing from the marker polygon.
Computed == pc \in {"slopes", "tangent", "quadrant", "normalize", "print", "done"}

\* C7: a run in which an extraction found no contour or a polygon of an
\* unexpected number of vertices has failed and prints no result: a run
\* that computes or prints a position or bearing has had 4 vertices from
\* each map-boundary extraction and 3 from the marker's, and a run that
\* raised has printed neither line.
C7_NoResultFromBadPolygon ==
    /\ (Computed \/ Printed) =>
           /\ error = "none"
           /\ Len(vertices) = 4
           /\ Len(warpedPoints) = 4
           /\ Len(p1) = 2 /\ Len(p2) = 2 /\ Len(p3) = 2
    /\ (error # "none") => (pc \in {"crashed", "exit"} /\ ~Printed)

\* The apex lies in the rectified map, which has a positive size.
ApexInMap ==
    LET ab == ApexBase(p1, p2, p3)
    IN  /\ map_width > 0 /\ map_height > 0
        /\ 0 <= ab.xpos /\ ab.xpos <= map_width
        /\ 0 <= ab.ypos /\ ab.ypos <= map_height

\* C8: for an apex inside the map both components of the normalized
\* position lie in [0, 1] (and are printed as 0.000 to 1.000), and the y
\* component is (map_height - y) / map_height.
C8_PositionInUnitSquare ==
    /\ (pc \in {"print", "done"} /\ ApexInMap) =>
           /\ xpos.d = map_width /\ ypos.d = map_height
           /\ 0 <= xpos.n /\ xpos.n <= xpos.d
           /\ 0 <= ypos.n /\ ypos.n <= ypos.d
           /\ \E k \in 1..3 :
                 /\ xpos.n = <<p1, p2, p3>>[k][1]
                 /\ ypos.n = map_height - <<p1, p2, p3>>[k][2]
    /\ (pc = "done" /\ ApexInMap) =>
           /\ output[2].x \in 0..1000
           /\ output[2].y \in 0..1000

\* A printed position strictly inside the unit square.
C8_Witness ==
    /\ pc = "done"
    /\ ApexInMap
    /\ xpos.n > 0 /\ xpos.n < xpos.d
    /\ ypos.n > 0 /\ ypos.n < ypos.d

\* All three vertices lie in a map of the given size.
MarkerInMap(tri, width, height) ==
    \A k \in 1..3 :
        /\ 0 <= tri[k][1] /\ tri[k][1] <= width
        /\ 0 <= tri[k][2] /\ tri[k][2] <= height

Shift(tri, dx, dy) == [k \in 1..3 |-> <<tri[k][1] + dx, tri[k][2] + dy>>]

\* The tangent of lines 254-261 for a triangle and a map width.
TangentOf(tri, width) ==
    LET ab == ApexBase(tri[1], tri[2], tri[3])
    IN  AngleTangent(NorthSlope(ab.mid_x, ab.mid_y, width),
                     PointerSlope(ab.xpos, ab.ypos, ab.mid_x, ab.mid_y))

\* The offset of lines 278-284 for a triangle and a map width.
OffsetOf(tri, width) ==
    LET ab == ApexBase(tri[1], tri[2], tri[3])
    IN  QuadrantOffset(ab.xpos, ab.ypos, ab.mid_x, ab.mid_y, TangentOf(tri, width))

\* C10: the sign of the tangent and the offset chosen are those of the same
\* triangle moved anywhere inside a map of any width and height.
C10_TranslationInvariant ==
    (AfterQuadrant /\ MarkerInMap(<<p1, p2, p3>>, map_width, map_height)) =>
        \A w2 \in 1..MaxDim, h2 \in 1..MaxDim, dx \in -MaxDim..MaxDim,
           dy \in -MaxDim..MaxDim :
            LET moved == Shift(<<p1, p2, p3>>, dx, dy)
            IN  MarkerInMap(moved, w2, h2) =>
                   /\ Sign(TangentOf(moved, w2).n) = Sign(angle_tangent.n)
                   /\ OffsetOf(moved, w2) = OffsetAdded
====
